---- MODULE Spec2Model ----
(***************************************************************************)
(* Model of src/api.py: the POST /search-jobs handler (search_jobs), the   *)
(* two-call orchestrator (run_full_job_search) and get_gemini_parts.       *)
(*                                                                         *)
(* Texts are sequences of characters, each character a string, so that     *)
(* splitting, trimming, joining and slicing are computed character by      *)
(* character as the Python string methods compute them.                    *)
(***************************************************************************)
EXTENDS Integers, Sequences, FiniteSets, TLC

(***************************************************************************)
(* Bounds of the model.                                                    *)
(***************************************************************************)
\* the first AI response holds at most this many comma-separated pieces
MaxPieces == 2
\* an uploaded resume holds at most this many bytes
MaxFileBytes == 1

(***************************************************************************)
(* Python string methods used by the code.                                 *)
(***************************************************************************)
\* str.strip() with no argument removes the characters str.isspace() accepts
PyWhitespace == {" ", "\t", "\n", "\r", "\f"}

\* json.loads skips only these four characters around and between tokens
JsonWhitespace == {" ", "\t", "\n", "\r"}

RECURSIVE PyLStrip(_)
PyLStrip(s) ==
    IF s # <<>> /\ Head(s) \in PyWhitespace THEN PyLStrip(Tail(s)) ELSE s

RECURSIVE PyRStrip(_)
PyRStrip(s) ==
    IF s # <<>> /\ s[Len(s)] \in PyWhitespace
    THEN PyRStrip(SubSeq(s, 1, Len(s) - 1))
    ELSE s

PyStrip(s) == PyRStrip(PyLStrip(s))

\* str.split(","): one piece more than there are commas, empty pieces kept
RECURSIVE PySplit(_)
PySplit(s) ==
    IF \A i \in 1..Len(s) : s[i] # ","
    THEN <<s>>
    ELSE LET i == CHOOSE k \in 1..Len(s) :
                      s[k] = "," /\ \A m \in 1..(k - 1) : s[m] # ","
         IN  <<SubSeq(s, 1, i - 1)>> \o PySplit(SubSeq(s, i + 1, Len(s)))

\* sep.join(list)
RECURSIVE PyJoin(_, _)
PyJoin(sep, list) ==
    IF list = <<>> THEN <<>>
    ELSE IF Len(list) = 1 THEN list[1]
    ELSE list[1] \o sep \o PyJoin(sep, Tail(list))

PyStartsWith(s, p) == Len(s) >= Len(p) /\ SubSeq(s, 1, Len(p)) = p

PyEndsWith(s, p) ==
    Len(s) >= Len(p) /\ SubSeq(s, Len(s) - Len(p) + 1, Len(s)) = p

\* a variant of PySlice that stops one character late
PySlice_StopsLate(s, start, back) ==
    LET stop == IF Len(s) - back + 1 < 0 THEN 0 ELSE Len(s) - back + 1
        from == IF start > Len(s) THEN Len(s) ELSE start
    IN  IF from >= stop THEN <<>> ELSE SubSeq(s, from + 1, stop)

\* s[start:-back] for start >= 0 and back > 0: the stop index is clamped at 0
\* and an empty range gives the empty string
PySlice(s, start, back) ==
    LET stop == IF Len(s) - back < 0 THEN 0 ELSE Len(s) - back
        from == IF start > Len(s) THEN Len(s) ELSE start
    IN  IF from >= stop THEN <<>> ELSE SubSeq(s, from + 1, stop)

(***************************************************************************)
(* json.loads, on the JSON texts the model feeds it: the number 1 (and     *)
(* runs of the digit 1), arrays, the empty object and the literal NaN,     *)
(* which Python's decoder accepts.  A decoded value is a record            *)
(* [t, lit, items]: t is its type, lit the digits of a number, items the   *)
(* elements of an array.                                                   *)
(***************************************************************************)
NoValue == [t |-> "none", lit |-> <<>>, items |-> <<>>]

JsonFail == [ok |-> FALSE, val |-> NoValue, next |-> 0]

\* index of the first character at or after i that json.loads does not skip
RECURSIVE JsonSkip(_, _)
JsonSkip(s, i) ==
    IF i <= Len(s) /\ s[i] \in JsonWhitespace THEN JsonSkip(s, i + 1) ELSE i

\* index after the run of digits that starts at i
RECURSIVE JsonDigits(_, _)
JsonDigits(s, i) ==
    IF i <= Len(s) /\ s[i] = "1" THEN JsonDigits(s, i + 1) ELSE i

RECURSIVE JsonValue(_, _)
RECURSIVE JsonElements(_, _, _)

\* the value that starts at index i (no whitespace before it)
JsonValue(s, i) ==
    IF i > Len(s) THEN JsonFail
    ELSE IF s[i] = "1" THEN
        LET j == JsonDigits(s, i)
        IN  [ok |-> TRUE,
             val |-> [t |-> "number", lit |-> SubSeq(s, i, j - 1), items |-> <<>>],
             next |-> j]
    ELSE IF s[i] = "N" THEN
        IF i + 2 <= Len(s) /\ SubSeq(s, i, i + 2) = <<"N", "a", "N">>
        THEN [ok |-> TRUE,
              val |-> [t |-> "nan", lit |-> <<>>, items |-> <<>>],
              next |-> i + 3]
        ELSE JsonFail
    ELSE IF s[i] = "{" THEN
        LET j == JsonSkip(s, i + 1)
        IN  IF j <= Len(s) /\ s[j] = "}"
            THEN [ok |-> TRUE,
                  val |-> [t |-> "object", lit |-> <<>>, items |-> <<>>],
                  next |-> j + 1]
            ELSE JsonFail
    ELSE IF s[i] = "[" THEN
        LET j == JsonSkip(s, i + 1)
        IN  IF j <= Len(s) /\ s[j] = "]"
            THEN [ok |-> TRUE,
                  val |-> [t |-> "array", lit |-> <<>>, items |-> <<>>],
                  next |-> j + 1]
            ELSE JsonElements(s, j, <<>>)
    ELSE JsonFail

\* the elements of an array from index i on, acc holding those decoded so far
JsonElements(s, i, acc) ==
    LET v == JsonValue(s, i)
    IN  IF ~v.ok THEN JsonFail
        ELSE LET j == JsonSkip(s, v.next)
             IN  IF j > Len(s) THEN JsonFail
                 ELSE IF s[j] = "]" THEN
                     [ok |-> TRUE,
                      val |-> [t |-> "array", lit |-> <<>>,
                               items |-> Append(acc, v.val)],
                      next |-> j + 1]
                 ELSE IF s[j] = "," THEN
                     JsonElements(s, JsonSkip(s, j + 1), Append(acc, v.val))
                 ELSE JsonFail

\* json.loads(s): [ok, val]; ok is FALSE where json.loads raises JSONDecodeError
JsonLoads(s) ==
    LET v == JsonValue(s, JsonSkip(s, 1))
    IN  IF v.ok /\ JsonSkip(s, v.next) = Len(s) + 1
        THEN [ok |-> TRUE, val |-> v.val]
        ELSE [ok |-> FALSE, val |-> NoValue]

\* a variant of Renders that also refuses an array without elements
RECURSIVE Renders_RejectsEmpty(_)
Renders_RejectsEmpty(v) ==
    /\ v.t # "nan"
    /\ v.t = "array" => v.items # <<>>
    /\ \A k \in 1..Len(v.items) : Renders_RejectsEmpty(v.items[k])

\* JSONResponse renders its content with allow_nan=False: a NaN anywhere in
\* the content makes the rendering raise ValueError
RECURSIVE Renders(_)
Renders(v) ==
    /\ v.t # "nan"
    /\ \A k \in 1..Len(v.items) : Renders(v.items[k])

(***************************************************************************)
(* The pure parts of get_gemini_parts and run_full_job_search.             *)
(***************************************************************************)
BytesPart(data, mime) ==
    [kind |-> "inline_data", data |-> data, mime_type |-> mime, text |-> <<>>]

TextPart(prompt) ==
    [kind |-> "text", data |-> <<>>, mime_type |-> "", text |-> prompt]

\* a variant of get_gemini_parts without the "if file_bytes:" test
get_gemini_parts_Always(file_bytes, mime_type) ==
    <<BytesPart(file_bytes, mime_type)>>

\* "if file_bytes:" is false for an empty bytes object
get_gemini_parts(file_bytes, mime_type) ==
    IF file_bytes # <<>> THEN <<BytesPart(file_bytes, mime_type)>> ELSE <<>>

\* the f-string of step 1: the template with the four inputs embedded
text_prompt(job_role, qualification, location, custom_keywords) ==
    <<"expand_keywords", job_role, qualification, location, custom_keywords>>

\* contents = resume_parts[:]; contents.append(Part.from_text(text_prompt))
KeywordContents(resume_parts, req) ==
    Append(resume_parts,
           TextPart(text_prompt(req.job_role, req.qualification,
                                req.location, req.custom_keywords)))

\* a variant of KeywordsList without the "if k.strip()" filter
KeywordsList_KeepsBlank(text) ==
    LET pieces == PySplit(text)
    IN  [i \in 1..Len(pieces) |-> PyStrip(pieces[i])]

\* [k.strip() for k in keyword_response.text.split(",") if k.strip()]
KeywordsList(text) ==
    LET pieces == PySplit(text)
        kept   == SelectSeq(pieces, LAMBDA k : PyStrip(k) # <<>>)
    IN  [i \in 1..Len(kept) |-> PyStrip(kept[i])]

\* a variant of SearchQuery that appends the location before the qualification
SearchQuery_LocationFirst(keywords_list, qualification, location) ==
    PyJoin(<<" ">>, keywords_list \o <<location, qualification>>)

\* " ".join(keywords_list + [qualification, location])
SearchQuery(keywords_list, qualification, location) ==
    PyJoin(<<" ">>, keywords_list \o <<qualification, location>>)

\* the f-string of step 2: the template with search_query embedded
search_analysis_prompt(search_query) == <<"search_analysis", search_query>>

FinalContents(search_query) == <<TextPart(search_analysis_prompt(search_query))>>

\* the backtick character U+0060, which a TLA+ string cannot hold
Backtick == "U+0060"

JsonFence == <<Backtick, Backtick, Backtick, "j", "s", "o", "n">>

PlainFence == <<Backtick, Backtick, Backtick>>

JsonFenceLen == 7

PlainFenceLen == 3

\* a variant of CleanText that tests for the plain fence first
CleanText_PlainFenceFirst(raw) ==
    LET text == PyStrip(raw)
    IN  IF PyStartsWith(text, PlainFence) /\ PyEndsWith(text, PlainFence)
        THEN PyStrip(PySlice(text, PlainFenceLen, PlainFenceLen))
        ELSE IF PyStartsWith(text, JsonFence) /\ PyEndsWith(text, PlainFence)
        THEN PyStrip(PySlice(text, JsonFenceLen, PlainFenceLen))
        ELSE text

\* lines 90-94: the text handed to json.loads
CleanText(raw) ==
    LET text == PyStrip(raw)
    IN  IF PyStartsWith(text, JsonFence) /\ PyEndsWith(text, PlainFence)
        THEN PyStrip(PySlice(text, JsonFenceLen, PlainFenceLen))
        ELSE IF PyStartsWith(text, PlainFence) /\ PyEndsWith(text, PlainFence)
        THEN PyStrip(PySlice(text, PlainFenceLen, PlainFenceLen))
        ELSE text

(***************************************************************************)
(* The responses of the handler.                                           *)
(***************************************************************************)
NoResponse == [status |-> 0, body |-> [pending |-> TRUE]]

HTTP_OK == 200

HTTP_ERROR == 500

FixedDetail ==
    "The AI search service failed to process the request. Try refining your query."

\* JSONResponse(status_code=500, content={"message": f"File reading failed: {e}"})
FileReadFailure(e) ==
    [status |-> HTTP_ERROR, body |-> [message |-> <<"File reading failed: ", e>>]]

\* raise HTTPException(status_code=500, detail=...)
SearchFailure == [status |-> HTTP_ERROR, body |-> [detail |-> FixedDetail]]

\* a variant of SearchSuccess that validates results to be an array
SearchSuccess_ArraysOnly(search_query, keywords_list, results) ==
    [status |-> HTTP_OK,
     body |-> [search_query |-> search_query,
               keywords |-> keywords_list,
               results |-> IF results.t = "array" THEN results
                           ELSE [t |-> "array", lit |-> <<>>, items |-> <<>>]]]

\* JSONResponse(content=search_data)
SearchSuccess(search_query, keywords_list, results) ==
    [status |-> HTTP_OK,
     body |-> [search_query |-> search_query,
               keywords |-> keywords_list,
               results |-> results]]

(***************************************************************************)
(* The inputs of a request and the answers of the AI service.              *)
(***************************************************************************)
JobRoles == {<<"d">>, <<"e">>}

Qualifications == {<<>>, <<"B">>}

Locations == {<<>>, <<"R">>}

CustomKeywords == {<<>>, <<"k">>}

\* resume_file is None, or an upload with its bytes and declared media type
NoFile == [present |-> FALSE, bytes |-> <<>>, content_type |-> ""]

ResumeFiles ==
    {NoFile} \cup
    {[present |-> TRUE, bytes |-> [i \in 1..n |-> 37],
      content_type |-> "application/pdf"] : n \in 0..MaxFileBytes}

Requests ==
    [job_role : JobRoles, qualification : Qualifications, location : Locations,
     custom_keywords : CustomKeywords, resume_file : ResumeFiles]

NoRequest ==
    [job_role |-> <<>>, qualification |-> <<>>, location |-> <<>>,
     custom_keywords |-> <<>>, resume_file |-> NoFile]

\* the exceptions resume_file.read() and generate_content can raise
ReadErrors == {"I/O operation on closed file"}

AiErrors == {"ConnectError", "ClientError"}

\* a response of generate_content: its .text is a string or None
NoAnswer == [received |-> FALSE, has_text |-> FALSE, text |-> <<>>]

Answer(t) == [received |-> TRUE, has_text |-> TRUE, text |-> t]

AnswerWithoutText == [received |-> TRUE, has_text |-> FALSE, text |-> <<>>]

\* the pieces a keyword answer is made of
Pieces == {<<>>, <<" ">>, <<"a">>, <<" ", "b", "\t">>}

\* the answers of up to MaxPieces pieces, and one of the shape of
\* "Python,, Remote,": an empty piece inside and one at the end
KeywordTexts ==
    {PyJoin(<<",">>, p) : p \in UNION {[1..n -> Pieces] : n \in 1..MaxPieces}}
    \cup {<<"a", ",", ",", " ", "b", "\t", ",">>}

KeywordAnswers == {Answer(t) : t \in KeywordTexts} \cup {AnswerWithoutText}

\* what a search answer holds between its fences
Inners ==
    {<<>>, <<"[", "]">>, <<"[", "1", "]">>, <<"[", "1", ",", " ", "1", "]">>,
     <<" ", "[", "1", "]", "\n">>, <<"\f", "[", "1", "]">>, <<"{", "}">>,
     <<"N", "a", "N">>, <<"[", "1">>, <<Backtick>>}

Openings == {<<>>, PlainFence, JsonFence}

Closings == {<<>>, PlainFence}

\* the whitespace before and after a search answer
Paddings == {<<<<>>, <<>>>>, <<<<" ">>, <<"\n">>>>}

SearchTexts ==
    {pad[1] \o open \o inner \o close \o pad[2] :
        pad \in Paddings, open \in Openings, inner \in Inners, close \in Closings}
    \cup {PlainFence \o <<"J", "S", "O", "N", "[", "1", "]">> \o PlainFence,
          PlainFence \o <<"j", "s", "[", "1", "]">> \o PlainFence}

SearchAnswers == {Answer(t) : t \in SearchTexts} \cup {AnswerWithoutText}

(***************************************************************************)
(* The state of one request.                                               *)
(***************************************************************************)
VARIABLES
    pc,               \* where the handler is
    request,          \* the form fields and the upload
    resume_parts,     \* search_jobs: resume_parts
    contents,         \* what the first generate_content call was sent
    keyword_response, \* the answer to the first call
    keywords_list,    \* run_full_job_search: keywords_list
    search_query,     \* run_full_job_search: search_query
    final_contents,   \* what the second generate_content call was sent
    final_response,   \* the answer to the second call
    text,             \* run_full_job_search: text, as handed to json.loads
    response,         \* the HTTP response
    log,              \* the lines printed by the handler
    read_error,       \* the exception resume_file.read() raised, "" if none
    keyword_calls,    \* how many times the first call was issued
    search_calls      \* how many times the second call was issued

vars ==
    <<pc, request, resume_parts, contents, keyword_response, keywords_list,
      search_query, final_contents, final_response, text, response, log,
      read_error, keyword_calls, search_calls>>

Init ==
    /\ pc = "idle"
    /\ request = NoRequest
    /\ resume_parts = <<>>
    /\ contents = <<>>
    /\ keyword_response = NoAnswer
    /\ keywords_list = <<>>
    /\ search_query = <<>>
    /\ final_contents = <<>>
    /\ final_response = NoAnswer
    /\ text = <<>>
    /\ response = NoResponse
    /\ log = <<>>
    /\ read_error = ""
    /\ keyword_calls = 0
    /\ search_calls = 0

\* a variant of Fails that answers with the exception instead of the fixed detail
Fails_ExposesDetail(e) ==
    /\ log' = Append(log, <<"Gemini/Search Error: ", e>>)
    /\ response' = [status |-> HTTP_ERROR, body |-> [detail |-> e]]
    /\ pc' = "done"

\* lines 132-137: the broad handler prints the exception and raises the
\* HTTPException with the fixed detail
Fails(e) ==
    /\ log' = Append(log, <<"Gemini/Search Error: ", e>>)
    /\ response' = SearchFailure
    /\ pc' = "done"

\* lines 54-59: run_full_job_search up to its first generate_content call
StartsKeywordCall(parts, req) ==
    /\ contents' = KeywordContents(parts, req)
    /\ keyword_calls' = keyword_calls + 1
    /\ pc' = "keyword_call"

\* a request without an upload: resume_parts stays empty and the
\* orchestrator is called at once
ReceiveRequest(req) ==
    /\ pc = "idle"
    /\ ~req.resume_file.present
    /\ request' = req
    /\ resume_parts' = <<>>
    /\ StartsKeywordCall(<<>>, req)
    /\ UNCHANGED <<read_error, keyword_response, keywords_list, search_query,
                   final_contents, final_response, text, response, log,
                   search_calls>>

\* a request with an upload: the handler awaits resume_file.read()
ReceiveUpload(req) ==
    /\ pc = "idle"
    /\ req.resume_file.present
    /\ request' = req
    /\ pc' = "reading"
    /\ UNCHANGED <<read_error, resume_parts, contents, keyword_response,
                   keywords_list, search_query, final_contents, final_response,
                   text, response, log, keyword_calls, search_calls>>

\* lines 119-121 and 127: the read succeeds
ResumeRead ==
    /\ pc = "reading"
    /\ LET parts == get_gemini_parts(request.resume_file.bytes,
                                     request.resume_file.content_type)
       IN  /\ resume_parts' = parts
           /\ StartsKeywordCall(parts, request)
    /\ UNCHANGED <<read_error, request, keyword_response, keywords_list,
                   search_query, final_contents, final_response, text, response,
                   log, search_calls>>

\* a variant of ResumeReadFails that goes on without the resume
ResumeReadFails_Continues(e) ==
    /\ pc = "reading"
    /\ read_error' = e
    /\ resume_parts' = <<>>
    /\ StartsKeywordCall(<<>>, request)
    /\ UNCHANGED <<request, keyword_response, keywords_list, search_query,
                   final_contents, final_response, text, response, log,
                   search_calls>>

\* lines 122-123: the read raises
ResumeReadFails(e) ==
    /\ pc = "reading"
    /\ read_error' = e
    /\ response' = FileReadFailure(e)
    /\ pc' = "done"
    /\ UNCHANGED <<request, resume_parts, contents, keyword_response,
                   keywords_list, search_query, final_contents, final_response,
                   text, log, keyword_calls, search_calls>>

\* lines 57-87: the first call returns; the keywords and the query are
\* computed and the second call is issued.  A response without text makes
\* .split raise AttributeError.
KeywordCallReturns(answer) ==
    /\ pc = "keyword_call"
    /\ keyword_response' = answer
    /\ IF answer.has_text
       THEN LET kws == KeywordsList(answer.text)
                q   == SearchQuery(kws, request.qualification, request.location)
            IN  /\ keywords_list' = kws
                /\ search_query' = q
                /\ final_contents' = FinalContents(q)
                /\ search_calls' = search_calls + 1
                /\ pc' = "search_call"
                /\ UNCHANGED <<response, log>>
       ELSE /\ Fails("AttributeError")
            /\ UNCHANGED <<keywords_list, search_query, final_contents,
                           search_calls>>
    /\ UNCHANGED <<read_error, request, resume_parts, contents, final_response,
                   text, keyword_calls>>

\* a variant of KeywordCallRaises that issues the first call again
KeywordCallRaises_Retries(e) ==
    /\ pc = "keyword_call"
    /\ log' = Append(log, <<"Gemini/Search Error: ", e>>)
    /\ keyword_calls' = keyword_calls + 1
    /\ UNCHANGED <<pc, read_error, request, resume_parts, contents,
                   keyword_response, keywords_list, search_query, final_contents,
                   final_response, text, response, search_calls>>

\* the first call raises
KeywordCallRaises(e) ==
    /\ pc = "keyword_call"
    /\ Fails(e)
    /\ UNCHANGED <<read_error, request, resume_parts, contents,
                   keyword_response, keywords_list, search_query, final_contents,
                   final_response, text, keyword_calls, search_calls>>

\* lines 90-99 and 130: the second call returns; its text is cleaned,
\* parsed and the response rendered
SearchCallReturns(answer) ==
    /\ pc = "search_call"
    /\ final_response' = answer
    /\ IF ~answer.has_text
       THEN /\ Fails("AttributeError")
            /\ UNCHANGED text
       ELSE LET cleaned == CleanText(answer.text)
                parsed  == JsonLoads(cleaned)
            IN  /\ text' = cleaned
                /\ IF ~parsed.ok THEN Fails("JSONDecodeError")
                   ELSE IF ~Renders(parsed.val) THEN Fails("ValueError")
                   ELSE /\ response' =
                               SearchSuccess(search_query, keywords_list, parsed.val)
                        /\ pc' = "done"
                        /\ UNCHANGED log
    /\ UNCHANGED <<read_error, request, resume_parts, contents,
                   keyword_response, keywords_list, search_query, final_contents,
                   keyword_calls, search_calls>>

\* the second call raises
SearchCallRaises(e) ==
    /\ pc = "search_call"
    /\ Fails(e)
    /\ UNCHANGED <<read_error, request, resume_parts, contents,
                   keyword_response, keywords_list, search_query, final_contents,
                   final_response, text, keyword_calls, search_calls>>

Next ==
    \/ \E req \in Requests : ReceiveRequest(req)
    \/ \E req \in Requests : ReceiveUpload(req)
    \/ ResumeRead
    \/ \E e \in ReadErrors : ResumeReadFails(e)
    \/ \E answer \in KeywordAnswers : KeywordCallReturns(answer)
    \/ \E e \in AiErrors : KeywordCallRaises(e)
    \/ \E answer \in SearchAnswers : SearchCallReturns(answer)
    \/ \E e \in AiErrors : SearchCallRaises(e)

Spec == Init /\ [][Next]_vars

(***************************************************************************)
(* Definitions the properties below are stated with.                       *)
(***************************************************************************)
Succeeded == pc = "done" /\ response.status = HTTP_OK

ResultFields == {"search_query", "keywords", "results"}

\* each keyword followed by one space
RECURSIVE EachThenSpace(_)
EachThenSpace(list) ==
    IF list = <<>> THEN <<>>
    ELSE Head(list) \o <<" ">> \o EachThenSpace(Tail(list))

\* the positions of the commas of s, with the two ends of s
Cuts(s) == {0, Len(s) + 1} \cup {i \in 1..Len(s) : s[i] = ","}

\* the piece of s that starts after the cut c
PieceAfter(s, c) ==
    LET next == CHOOSE d \in Cuts(s) :
                    d > c /\ \A x \in Cuts(s) : x > c => d <= x
    IN  SubSeq(s, c + 1, next - 1)

\* a piece without the whitespace around it
Trimmed(piece) ==
    LET solid == {i \in 1..Len(piece) : piece[i] \notin PyWhitespace}
    IN  IF solid = {} THEN <<>>
        ELSE SubSeq(piece,
                    CHOOSE i \in solid : \A j \in solid : i <= j,
                    CHOOSE i \in solid : \A j \in solid : i >= j)

\* the cuts of s that a non-blank piece follows
KeptCuts(s) ==
    {c \in Cuts(s) \ {Len(s) + 1} : Trimmed(PieceAfter(s, c)) # <<>>}

\* the trimmed non-blank pieces of s, from left to right
RECURSIVE PiecesFrom(_, _)
PiecesFrom(s, cuts) ==
    IF cuts = {} THEN <<>>
    ELSE LET c == CHOOSE x \in cuts : \A y \in cuts : x <= y
         IN  <<Trimmed(PieceAfter(s, c))>> \o PiecesFrom(s, cuts \ {c})

ExpectedKeywords(s) == PiecesFrom(s, KeptCuts(s))

(***************************************************************************)
(* C1: in every successful request the returned search_query is the        *)
(* returned keywords, then the qualification, then the location, joined    *)
(* by single spaces, whatever the first answer and the inputs were.        *)
(***************************************************************************)
C1_SearchQueryIsKeywordsQualificationLocation ==
    Succeeded =>
        response.body.search_query =
            EachThenSpace(response.body.keywords)
                \o request.qualification \o <<" ">> \o request.location

C1_Witness ==
    /\ Succeeded
    /\ Len(response.body.keywords) = 2
    /\ request.qualification = <<"B">>
    /\ request.location = <<"R">>
    /\ request.custom_keywords = <<"k">>

(***************************************************************************)
(* C2: the keywords list is the text of the first answer split on commas,  *)
(* each piece trimmed, the blank pieces dropped and the order kept; no     *)
(* keyword is empty or starts or ends with whitespace.                     *)
(***************************************************************************)
C2_KeywordsAreTrimmedNonEmptyPieces ==
    (keyword_response.received /\ keyword_response.has_text) =>
        /\ keywords_list = ExpectedKeywords(keyword_response.text)
        /\ \A i \in 1..Len(keywords_list) :
              /\ keywords_list[i] # <<>>
              /\ keywords_list[i][1] \notin PyWhitespace
              /\ keywords_list[i][Len(keywords_list[i])] \notin PyWhitespace

\* the answer "a,, b<tab>,": an empty piece between two keywords and one
\* after them
C2_Witness ==
    /\ keyword_response.received
    /\ keyword_response.text = <<"a", ",", ",", " ", "b", "\t", ",">>
    /\ keywords_list = <<<<"a">>, <<"b">>>>

(***************************************************************************)
(* C3: a successful request answers 200 with exactly the fields            *)
(* search_query, keywords and results, and results is the value the        *)
(* cleaned second answer decodes to, whatever JSON value that is.          *)
(***************************************************************************)
C3_SuccessBodyPassesResultsThrough ==
    Succeeded =>
        /\ DOMAIN response.body = ResultFields
        /\ response.body.search_query = search_query
        /\ response.body.keywords = keywords_list
        /\ JsonLoads(text).ok
        /\ response.body.results = JsonLoads(text).val

\* a result that is an object, not an array of postings
C3_Witness == Succeeded /\ response.body.results.t = "object"

(***************************************************************************)
(* The second answer, as the properties about the fences see it.           *)
(***************************************************************************)
SearchAnswered == pc = "done" /\ final_response.received /\ final_response.has_text

\* the second answer without the whitespace around it
Stripped == PyStrip(final_response.text)

JsonFenced ==
    PyStartsWith(Stripped, JsonFence) /\ PyEndsWith(Stripped, PlainFence)

PlainFenced ==
    /\ PyStartsWith(Stripped, PlainFence)
    /\ PyEndsWith(Stripped, PlainFence)
    /\ ~PyStartsWith(Stripped, JsonFence)

FenceWrapped ==
    PyStartsWith(Stripped, PlainFence) /\ PyEndsWith(Stripped, PlainFence)

\* s without its first `lead` and its last `trail` characters: the
\* characters at the positions that are in neither group, in order
Without(s, lead, trail) ==
    LET keep == {i \in 1..Len(s) : i > lead /\ i <= Len(s) - trail}
    IN  [k \in 1..Cardinality(keep) |-> s[lead + k]]

\* the request ends as json.loads of t and the rendering of its value end
OutcomeIsThatOfParsing(t) ==
    LET direct == JsonLoads(t)
    IN  /\ response.status = HTTP_OK =>
              direct.ok /\ response.body.results = direct.val
        /\ response.status # HTTP_OK => ~(direct.ok /\ Renders(direct.val))

(***************************************************************************)
(* C4, as claimed: for an answer fenced with the json tag, 7 leading and   *)
(* 3 trailing characters are removed and the outcome is that of parsing    *)
(* the inner content directly.                                             *)
(***************************************************************************)
C4_Original ==
    (SearchAnswered /\ JsonFenced) =>
        /\ Stripped = JsonFence \o Without(Stripped, 7, 3) \o PlainFence
        /\ OutcomeIsThatOfParsing(Without(Stripped, 7, 3))

(***************************************************************************)
(* C4, amended: for an answer fenced with the json tag, 7 leading and 3    *)
(* trailing characters are removed, the whitespace str.strip removes is    *)
(* trimmed from the inner content, and the outcome is that of parsing the  *)
(* trimmed inner content.                                                  *)
(***************************************************************************)
C4_JsonFenceStripped ==
    (SearchAnswered /\ JsonFenced) =>
        /\ Stripped = JsonFence \o Without(Stripped, 7, 3) \o PlainFence
        /\ text = PyStrip(Without(Stripped, 7, 3))
        /\ OutcomeIsThatOfParsing(PyStrip(Without(Stripped, 7, 3)))

\* a json-fenced answer whose inner content starts with a form feed
C4_Witness ==
    /\ SearchAnswered
    /\ JsonFenced
    /\ Without(Stripped, 7, 3) = <<"\f", "[", "1", "]">>
    /\ response.status = HTTP_OK

(***************************************************************************)
(* C5, as claimed: for an answer in a plain fence, exactly the first 3     *)
(* and the last 3 characters are stripped before parsing (nothing is left  *)
(* of an answer shorter than 6 characters); an answer that is not fenced   *)
(* is parsed with only the whitespace around it stripped.                  *)
(***************************************************************************)
C5_Original ==
    SearchAnswered =>
        /\ PlainFenced => OutcomeIsThatOfParsing(Without(Stripped, 3, 3))
        /\ ~FenceWrapped =>
              /\ text = Stripped
              /\ OutcomeIsThatOfParsing(Stripped)

(***************************************************************************)
(* C5, amended: for an answer in a plain fence, the first 3 and the last   *)
(* 3 characters are stripped (nothing is left of an answer shorter than 6  *)
(* characters) and then the whitespace around what remains, before         *)
(* parsing; an answer that is not fenced is parsed with only the           *)
(* whitespace around it stripped.                                          *)
(***************************************************************************)
C5_PlainFenceStripped ==
    SearchAnswered =>
        /\ PlainFenced =>
              /\ text = PyStrip(Without(Stripped, 3, 3))
              /\ OutcomeIsThatOfParsing(PyStrip(Without(Stripped, 3, 3)))
        /\ ~FenceWrapped =>
              /\ text = Stripped
              /\ OutcomeIsThatOfParsing(Stripped)

\* a lone fence of three backticks: nothing is left to parse
C5_Witness ==
    /\ SearchAnswered
    /\ PlainFenced
    /\ Stripped = PlainFence
    /\ text = <<>>
    /\ response.status = HTTP_ERROR

(***************************************************************************)
(* The ways a request fails after the file-read stage.                     *)
(***************************************************************************)
\* the first call raised, or its response had no text to split
KeywordCallFailed ==
    /\ pc = "done"
    /\ keyword_calls = 1
    /\ ~(keyword_response.received /\ keyword_response.has_text)

\* the second call raised, or its response had no text to strip
SearchCallFailed ==
    /\ pc = "done"
    /\ search_calls = 1
    /\ ~(final_response.received /\ final_response.has_text)

\* the cleaned second answer is not JSON
ParsingFailed == SearchAnswered /\ ~JsonLoads(text).ok

\* the second answer decodes to an array without postings
EmptyResults ==
    /\ SearchAnswered
    /\ JsonLoads(text).ok
    /\ JsonLoads(text).val.t = "array"
    /\ JsonLoads(text).val.items = <<>>

(***************************************************************************)
(* C6: a failure of the first call, of the second call or of the parsing   *)
(* ends the request with 500 and the one fixed message, which holds no     *)
(* exception detail; a failed request returns none of search_query,        *)
(* keywords and results.                                                   *)
(***************************************************************************)
C6_FailuresAreOpaqueAndWhole ==
    /\ (KeywordCallFailed \/ SearchCallFailed \/ ParsingFailed) =>
          /\ response.status = HTTP_ERROR
          /\ DOMAIN response.body = {"detail"}
          /\ response.body.detail = FixedDetail
          /\ log # <<>>
    /\ (pc = "done" /\ response.status # HTTP_OK) =>
          DOMAIN response.body \cap ResultFields = {}
    /\ (pc = "done" /\ response.status # HTTP_OK /\ read_error = "") =>
          response = SearchFailure

\* the second answer was not JSON although the keywords had been computed
C6_Witness ==
    /\ ParsingFailed
    /\ keywords_list # <<>>
    /\ response.status = HTTP_ERROR
    /\ log = <<<<"Gemini/Search Error: ", "JSONDecodeError">>>>

(***************************************************************************)
(* C7, as claimed: an unreachable AI service, an answer that is not JSON   *)
(* and a well-formed answer with empty results all give the caller the     *)
(* same generic failure message.                                           *)
(***************************************************************************)
C7_Original ==
    (KeywordCallFailed \/ SearchCallFailed \/ ParsingFailed \/ EmptyResults) =>
        response = SearchFailure

(***************************************************************************)
(* C7, amended: an unreachable AI service and an answer that is not JSON   *)
(* give the caller the same generic failure message; a well-formed answer  *)
(* with empty results is a success, 200 with the empty results.            *)
(***************************************************************************)
C7_OnlyErrorsShareTheFailure ==
    /\ (KeywordCallFailed \/ SearchCallFailed \/ ParsingFailed) =>
          response = SearchFailure
    /\ EmptyResults =>
          /\ response.status = HTTP_OK
          /\ response.body.results.t = "array"
          /\ response.body.results.items = <<>>

C7_Witness ==
    /\ EmptyResults
    /\ final_response.text = <<"[", "]">>
    /\ response.status = HTTP_OK

(***************************************************************************)
(* C8: when the read of a present resume file fails, the answer is 500     *)
(* with the message "File reading failed: <diagnostic>", the orchestrator  *)
(* is not invoked and no AI call is made; the answer differs from the      *)
(* fixed failure of the orchestration.                                     *)
(***************************************************************************)
C8_ReadFailureStopsTheRequest ==
    read_error # "" =>
        /\ request.resume_file.present
        /\ pc = "done"
        /\ response.status = HTTP_ERROR
        /\ DOMAIN response.body = {"message"}
        /\ response.body.message = <<"File reading failed: ", read_error>>
        /\ contents = <<>>
        /\ keyword_calls = 0
        /\ search_calls = 0
        /\ log = <<>>

C8_Witness ==
    /\ read_error = "I/O operation on closed file"
    /\ request.resume_file.bytes # <<>>
    /\ response.status = HTTP_ERROR

(***************************************************************************)
(* The inline binary parts of what the first call was sent.                *)
(***************************************************************************)
InlineParts == SelectSeq(contents, LAMBDA part : part.kind = "inline_data")

KeywordCallIssued == keyword_calls >= 1

TextIsLast ==
    /\ contents # <<>>
    /\ contents[Len(contents)] =
          TextPart(<<"expand_keywords", request.job_role, request.qualification,
                     request.location, request.custom_keywords>>)

(***************************************************************************)
(* C9, as claimed: the first call is sent exactly one inline binary part,  *)
(* the resume bytes with the declared media type, whenever a resume file   *)
(* is present, and none when no file is present; the text instruction is   *)
(* the last part.                                                          *)
(***************************************************************************)
C9_Original ==
    KeywordCallIssued =>
        /\ request.resume_file.present =>
              InlineParts = <<BytesPart(request.resume_file.bytes,
                                        request.resume_file.content_type)>>
        /\ ~request.resume_file.present => InlineParts = <<>>
        /\ TextIsLast

(***************************************************************************)
(* C9, amended: the first call is sent exactly one inline binary part,     *)
(* the resume bytes with the declared media type, whenever a resume file   *)
(* is present and not empty, and none when no file is present or the file  *)
(* is empty; the text instruction is the last part.                        *)
(***************************************************************************)
C9_OnePartForNonEmptyResume ==
    KeywordCallIssued =>
        /\ (request.resume_file.present /\ request.resume_file.bytes # <<>>) =>
              InlineParts = <<BytesPart(request.resume_file.bytes,
                                        request.resume_file.content_type)>>
        /\ (~request.resume_file.present \/ request.resume_file.bytes = <<>>) =>
              InlineParts = <<>>
        /\ TextIsLast
        /\ Len(contents) = Len(InlineParts) + 1

\* an uploaded empty file: only the text instruction is sent
C9_Witness ==
    /\ KeywordCallIssued
    /\ request.resume_file.present
    /\ request.resume_file.bytes = <<>>
    /\ Len(contents) = 1
    /\ keywords_list # <<>>

(***************************************************************************)
(* C10: each of the two calls is issued at most once; the second is        *)
(* issued only when the first has answered and search_query has been       *)
(* computed from the answer, and it carries that query; when either call   *)
(* fails the request has failed and no other call was made.                *)
(***************************************************************************)
C10_CallsAreOrderedAndNotRetried ==
    /\ keyword_calls \in {0, 1}
    /\ search_calls \in {0, 1}
    /\ search_calls = 1 =>
          /\ keyword_calls = 1
          /\ keyword_response.received
          /\ keyword_response.has_text
          /\ search_query =
                EachThenSpace(ExpectedKeywords(keyword_response.text))
                    \o request.qualification \o <<" ">> \o request.location
          /\ final_contents = <<TextPart(<<"search_analysis", search_query>>)>>
    /\ (keyword_response.received /\ ~keyword_response.has_text) =>
          pc = "done" /\ search_calls = 0 /\ response = SearchFailure
    /\ (final_response.received /\ ~final_response.has_text) =>
          pc = "done" /\ response = SearchFailure
    /\ log # <<>> => pc = "done" /\ response = SearchFailure
    /\ KeywordCallFailed => search_calls = 0 /\ response = SearchFailure
    /\ pc = "keyword_call" => keyword_calls = 1 /\ search_calls = 0
    /\ pc = "search_call" => keyword_calls = 1 /\ search_calls = 1

\* the first call raised: the second was never issued
C10_Witness ==
    /\ KeywordCallFailed
    /\ ~keyword_response.received
    /\ search_calls = 0
    /\ log = <<<<"Gemini/Search Error: ", "ConnectError">>>>

====
